---- MODULE Spec2Model ----
(***************************************************************************)
(* A model of katdal's S3ChunkStore (katdal/chunkstore_s3.py): the chunk   *)
(* naming scheme, the .npy payload framing, the pooled HTTP sessions with  *)
(* their authentication handlers, the translation of HTTP statuses into    *)
(* store errors, and the store operations running on concurrent threads    *)
(* against an S3-compatible server.                                        *)
(*                                                                         *)
(* Strings are sequences of one-character strings, so that prefixes, path  *)
(* segments and key stripping are computed as the code computes them.      *)
(***************************************************************************)
EXTENDS Integers, Sequences, FiniteSets, TLC

\* ------------------------------------------------------------------ bounds
\* Number of threads sharing the one store.
NThreads == 2
\* Number of store operations started in one behaviour.
MaxOps == 3
\* Number of requests the network or the server fails in one behaviour.
MaxFaults == 1

\* ------------------------------------------------------- program constants
\* Width of one zero-padded start offset in a chunk index string.
IdxWidth == 5

\* ----------------------------------------------------------------- strings
NAME_SEP == <<"/">>
NPY_EXT == <<".", "n", "p", "y">>
COMPLETE == <<"c", "o", "m", "p", "l", "e", "t", "e">>

\* Characters in increasing code-point order (those any name here is made of).
CharOrder ==
  <<" ", "%", ".", "/", "0", "1", "2", "3", "4", "5", "6", "7", "8", "9", "?",
    "_", "a", "b", "c", "e", "l", "m", "n", "o", "p", "t", "x", "y">>

Ord(c) == CHOOSE i \in 1..Len(CharOrder) : CharOrder[i] = c

StartsWith(s, p) == Len(p) <= Len(s) /\ SubSeq(s, 1, Len(p)) = p

EndsWith(s, p) == Len(p) <= Len(s) /\ SubSeq(s, Len(s) - Len(p) + 1, Len(s)) = p

\* s[n:] of Python (n >= 0).
DropFirst(s, n) == SubSeq(s, n + 1, Len(s))

\* s[:-n] of Python (n > 0).
DropLast(s, n) == SubSeq(s, 1, Len(s) - n)

\* Byte-wise comparison of two strings, as the server orders its keys.
RECURSIVE LexLess(_, _)
LexLess(a, b) ==
  IF b = <<>> THEN FALSE
  ELSE IF a = <<>> THEN TRUE
  ELSE IF Head(a) # Head(b) THEN Ord(Head(a)) < Ord(Head(b))
  ELSE LexLess(Tail(a), Tail(b))

RECURSIVE SortKeys(_)
SortKeys(S) ==
  IF S = {} THEN <<>>
  ELSE LET m == CHOOSE k \in S : \A j \in S \ {k} : LexLess(k, j)
       IN <<m>> \o SortKeys(S \ {m})

RECURSIVE LStrip(_, _)
LStrip(s, c) == IF s # <<>> /\ Head(s) = c THEN LStrip(Tail(s), c) ELSE s

\* Position of the first separator in s, 0 when there is none.
SepPos(s) ==
  IF \E i \in 1..Len(s) : s[i] = "/"
  THEN CHOOSE i \in 1..Len(s) : s[i] = "/" /\ \A j \in 1..(i - 1) : s[j] # "/"
  ELSE 0

\* ChunkStore.split(name, maxsplit): name.split('/', maxsplit); -1 is no limit.
RECURSIVE split(_, _)
split(name, maxsplit) ==
  IF maxsplit = 0 \/ SepPos(name) = 0 THEN <<name>>
  ELSE <<SubSeq(name, 1, SepPos(name) - 1)>>
         \o split(DropFirst(name, SepPos(name)),
                  IF maxsplit < 0 THEN maxsplit ELSE maxsplit - 1)

\* ChunkStore.join(a, b): '/'.join([a, b]).
join(a, b) == a \o NAME_SEP \o b

\* urllib.parse.quote with its default safe='/': letters, digits and "_.-~/"
\* are kept, a space becomes %20 and a percent sign %25.
QuoteChar(c) ==
  IF c = " " THEN <<"%", "2", "0">>
  ELSE IF c = "%" THEN <<"%", "2", "5">>
  ELSE <<c>>

RECURSIVE quote(_)
quote(s) == IF s = <<>> THEN <<>> ELSE QuoteChar(Head(s)) \o quote(Tail(s))

\* The server's percent-decoding of a request path.
RECURSIVE unquote(_)
unquote(s) ==
  IF s = <<>> THEN <<>>
  ELSE IF Len(s) >= 3 /\ SubSeq(s, 1, 3) = <<"%", "2", "0">>
    THEN <<" ">> \o unquote(DropFirst(s, 3))
  ELSE IF Len(s) >= 3 /\ SubSeq(s, 1, 3) = <<"%", "2", "5">>
    THEN <<"%">> \o unquote(DropFirst(s, 3))
  ELSE <<Head(s)>> \o unquote(Tail(s))

\* urllib.parse.urljoin(self._url, rel) for the base URL of the store, which
\* names a host and no path: the path of the joined URL.
urljoin(rel) == IF rel # <<>> /\ Head(rel) = "/" THEN rel ELSE <<"/">> \o rel

\* requests quotes a URL once more while it prepares the request
\* (requests.utils.requote_uri): a character that is not legal in a URL is
\* percent-encoded, a percent escape that is already there is kept.
RECURSIVE requote_uri(_)
requote_uri(s) ==
  IF s = <<>> THEN <<>>
  ELSE (IF Head(s) = " " THEN <<"%", "2", "0">> ELSE <<Head(s)>>)
         \o requote_uri(Tail(s))

\* "{:05d}".format(n)
DigitChars == <<"0", "1", "2", "3", "4", "5", "6", "7", "8", "9">>

RECURSIVE Decimal(_)
Decimal(n) ==
  IF n < 10 THEN <<DigitChars[n + 1]>>
  ELSE Decimal(n \div 10) \o <<DigitChars[(n % 10) + 1]>>

RECURSIVE ZeroPad(_, _)
ZeroPad(s, w) == IF Len(s) >= w THEN s ELSE ZeroPad(<<"0">> \o s, w)

\* ------------------------------------------------------------ small helpers
RECURSIVE Product(_)
Product(shape) == IF shape = <<>> THEN 1 ELSE Head(shape) * Product(Tail(shape))

Reverse(s) == [i \in 1..Len(s) |-> s[Len(s) + 1 - i]]

RECURSIVE Flatten(_)
Flatten(ss) == IF ss = <<>> THEN <<>> ELSE Head(ss) \o Flatten(Tail(ss))

Range(s) == {s[i] : i \in 1..Len(s)}

Min(a, b) == IF a <= b THEN a ELSE b

\* ------------------------------------------------------------------ arrays
\* A numpy array: its shape, its dtype, whether its memory is laid out in
\* column-major order only (flags.f_contiguous and not flags.c_contiguous),
\* and its elements in logical (row-major) order.
\* dtypes: "u1" (one byte), "u2" (two bytes, little-endian), "O" (object).
ItemSize(dtype) == IF dtype = "u2" THEN 2 ELSE 1

HasObject(dtype) == dtype = "O"

ToBytes(dtype, v) == IF dtype = "u2" THEN <<v % 256, v \div 256>> ELSE <<v % 256>>

FromBytes(dtype, bytes, i) ==
  IF dtype = "u2" THEN bytes[2 * i - 1] + 256 * bytes[2 * i] ELSE bytes[i]

\* Row-major and column-major flat offsets of a multi-index, and back.
RECURSIVE CIndex(_, _)
CIndex(idx, shape) ==
  IF idx = <<>> THEN 0
  ELSE CIndex(DropLast(idx, 1), DropLast(shape, 1)) * shape[Len(shape)]
         + idx[Len(idx)]

RECURSIVE UnravelC(_, _)
UnravelC(c, shape) ==
  IF shape = <<>> THEN <<>>
  ELSE UnravelC(c \div shape[Len(shape)], DropLast(shape, 1))
         \o <<c % shape[Len(shape)]>>

FIndex(idx, shape) == CIndex(Reverse(idx), Reverse(shape))

UnravelF(f, shape) == Reverse(UnravelC(f, Reverse(shape)))

\* The elements of an array in the order its memory holds them.
MemoryOrder(chunk) ==
  IF chunk.fortran
  THEN [k \in 1..Len(chunk.elems) |->
          chunk.elems[CIndex(UnravelF(k - 1, chunk.shape), chunk.shape) + 1]]
  ELSE chunk.elems

\* npy_header_and_body(chunk): the .npy header and the raw bytes that follow.
npy_header_and_body(chunk) ==
  [npy |-> TRUE, version |-> <<1, 0>>, shape |-> chunk.shape,
   fortran_order |-> chunk.fortran, descr |-> chunk.dtype,
   body |-> Flatten([k \in 1..Len(chunk.elems) |->
                       ToBytes(chunk.dtype, MemoryOrder(chunk)[k])])]

NoChunk == [shape |-> <<>>, dtype |-> "", fortran |-> FALSE, elems |-> <<>>]

\* read_array without the transposition of column-major data.
read_array_untransposed(fp) ==
  LET count == Product(fp.shape)
      nbytes == count * ItemSize(fp.descr)
      bytes_read == Min(Len(fp.body), nbytes)
      data == [k \in 1..count |-> FromBytes(fp.descr, fp.body, k)]
  IN IF ~fp.npy \/ fp.version \notin {<<1, 0>>, <<2, 0>>} \/ HasObject(fp.descr)
          \/ bytes_read # nbytes
     THEN [err |-> "ValueError", chunk |-> NoChunk]
     ELSE [err |-> "",
           chunk |-> [shape |-> fp.shape, dtype |-> fp.descr,
                      fortran |-> fp.fortran_order, elems |-> data]]

\* read_array(fp): [err, chunk]; err is "" when an array was read.
read_array(fp) ==
  LET count == Product(fp.shape)
      nbytes == count * ItemSize(fp.descr)
      bytes_read == Min(Len(fp.body), nbytes)
      data == [k \in 1..count |-> FromBytes(fp.descr, fp.body, k)]
  IN IF ~fp.npy THEN [err |-> "ValueError", chunk |-> NoChunk]
     ELSE IF fp.version \notin {<<1, 0>>, <<2, 0>>}
       THEN [err |-> "ValueError", chunk |-> NoChunk]
     ELSE IF HasObject(fp.descr) THEN [err |-> "ValueError", chunk |-> NoChunk]
     ELSE IF bytes_read # nbytes THEN [err |-> "ValueError", chunk |-> NoChunk]
     ELSE [err |-> "",
           chunk |->
             [shape |-> fp.shape, dtype |-> fp.descr,
              fortran |-> fp.fortran_order,
              elems |->
                IF fp.fortran_order
                THEN [c \in 1..count |->
                        data[FIndex(UnravelC(c - 1, fp.shape), fp.shape) + 1]]
                ELSE data]]

\* ------------------------------------------------------------- chunk names
\* A slice is [start, stop, step]; NoIndex stands for a start or stop that
\* is None and NoStep for a step that is None.
NoIndex == -1
NoStep == 0

\* ChunkStore.chunk_id_str(slices): '_'.join of the zero-padded starts.
RECURSIVE chunk_id_str(_)
chunk_id_str(slices) ==
  IF slices = <<>> THEN <<>>
  ELSE ZeroPad(Decimal(Head(slices).start), IdxWidth)
         \o (IF Len(slices) > 1 THEN <<"_">> ELSE <<>>)
         \o chunk_id_str(Tail(slices))

\* ChunkStore.chunk_metadata(array_name, slices, chunk=None, dtype=None):
\* chunks and dtypes hold the optional argument, if given, as their one item.
chunk_metadata(array_name, slices, chunks, dtypes) ==
  LET shape == [k \in 1..Len(slices) |-> slices[k].stop - slices[k].start]
      bad == [err |-> "BadChunk", chunk_name |-> <<>>, shape |-> <<>>]
  IN IF \E k \in 1..Len(slices) :
          slices[k].start = NoIndex \/ slices[k].stop = NoIndex
     THEN bad
     ELSE IF \E k \in 1..Len(slices) : slices[k].step \notin {1, NoStep} THEN bad
     ELSE IF chunks # <<>> /\ chunks[1].shape # shape THEN bad
     ELSE IF chunks # <<>> /\ HasObject(chunks[1].dtype) THEN bad
     ELSE IF dtypes # <<>> /\ HasObject(dtypes[1]) THEN bad
     ELSE [err |-> "", chunk_name |-> join(array_name, chunk_id_str(slices)),
           shape |-> shape]

\* chunk_metadata for any object passed as slices: whether it can be iterated
\* over, and its items, each a slice or not.  Taking stop - start of
\* something that is no slice raises, which chunk_metadata turns into
\* BadChunk.
SliceSpec(iterable, items) == [iterable |-> iterable, items |-> items]

Item(is_slice, start, stop, step) ==
  [is_slice |-> is_slice, start |-> start, stop |-> stop, step |-> step]

\* chunk_metadata_of without the check of the stride.
chunk_metadata_of_any_stride(array_name, spec, chunks, dtypes) ==
  IF ~spec.iterable \/ \E k \in 1..Len(spec.items) : ~spec.items[k].is_slice
  THEN [err |-> "BadChunk", chunk_name |-> <<>>, shape |-> <<>>]
  ELSE chunk_metadata(array_name,
                      [k \in 1..Len(spec.items) |->
                         [start |-> spec.items[k].start, stop |-> spec.items[k].stop,
                          step |-> NoStep]],
                      chunks, dtypes)

chunk_metadata_of(array_name, spec, chunks, dtypes) ==
  IF ~spec.iterable \/ \E k \in 1..Len(spec.items) : ~spec.items[k].is_slice
  THEN [err |-> "BadChunk", chunk_name |-> <<>>, shape |-> <<>>]
  ELSE chunk_metadata(array_name,
                      [k \in 1..Len(spec.items) |->
                         [start |-> spec.items[k].start, stop |-> spec.items[k].stop,
                          step |-> spec.items[k].step]],
                      chunks, dtypes)

\* ------------------------------------------------------------ chunk sizes
Max(a, b) == IF a >= b THEN a ELSE b

CeilDiv(a, b) == (a + b - 1) \div b

\* The lengths of n blocks that cover an extent as evenly as possible, the
\* longer blocks first.
EvenBlocks(extent, n) ==
  [k \in 1..n |-> IF k <= extent % n THEN extent \div n + 1 ELSE extent \div n]

\* The blocks of the given length that cover an extent, what is left over
\* in a shorter last block.
BlocksOf(extent, len) ==
  [k \in 1..CeilDiv(extent, len) |->
     IF k * len <= extent THEN len ELSE extent - (k - 1) * len]

\* The number of blocks per dimension.  The dimensions to split are taken
\* in the order given (numbered from 0; one the shape does not have is
\* skipped) until a chunk has at most max_elements elements: a dimension is
\* given the longest block that fits next to the blocks of the others, by
\* integer division, and at least one element.
RECURSIVE NumBlocks(_, _, _, _)
NumBlocks(nums, dims, shape, max_elements) ==
  LET dim_elements == [d \in 1..Len(shape) |-> CeilDiv(shape[d], nums[d])]
  IN IF dims = <<>> \/ Product(dim_elements) <= max_elements THEN nums
     ELSE IF Head(dims) + 1 > Len(shape)
       THEN NumBlocks(nums, Tail(dims), shape, max_elements)
     ELSE LET dim == Head(dims) + 1
              other == Product([dim_elements EXCEPT ![dim] = 1])
              longest == Max(1, max_elements \div other)
          IN NumBlocks([nums EXCEPT ![dim] = CeilDiv(shape[dim], longest)],
                       Tail(dims), shape, max_elements)

\* generate_chunks with the number of blocks taken from the ratio of the
\* array's size to the chunk size, dimension by dimension.
RECURSIVE RatioBlocks(_, _, _, _)
RatioBlocks(nums, dims, shape, ratio) ==
  IF dims = <<>> \/ ratio <= 1 THEN nums
  ELSE IF Head(dims) + 1 > Len(shape) THEN RatioBlocks(nums, Tail(dims), shape, ratio)
  ELSE LET dim == Head(dims) + 1
           n == Min(ratio, shape[dim])
       IN RatioBlocks([nums EXCEPT ![dim] = n], Tail(dims), shape, CeilDiv(ratio, n))

generate_chunks_by_ratio(shape, itemsize, max_chunk_size, dims_to_split) ==
  LET nums == RatioBlocks([d \in 1..Len(shape) |-> 1], dims_to_split, shape,
                          CeilDiv(Product(shape) * itemsize, max_chunk_size))
  IN [d \in 1..Len(shape) |-> EvenBlocks(shape[d], nums[d])]

\* generate_chunks with what is left over of a dimension in its last block.
generate_chunks_remainder_last(shape, itemsize, max_chunk_size, dims_to_split) ==
  LET nums == NumBlocks([d \in 1..Len(shape) |-> 1], dims_to_split, shape,
                        max_chunk_size \div itemsize)
  IN [d \in 1..Len(shape) |-> BlocksOf(shape[d], CeilDiv(shape[d], nums[d]))]

\* generate_chunks(shape, dtype, max_chunk_size, dims_to_split), without
\* power_of_two: per dimension, the lengths of its blocks.
generate_chunks(shape, itemsize, max_chunk_size, dims_to_split) ==
  LET nums == NumBlocks([d \in 1..Len(shape) |-> 1], dims_to_split, shape,
                        max_chunk_size \div itemsize)
  IN [d \in 1..Len(shape) |-> EvenBlocks(shape[d], nums[d])]

\* ------------------------------------------------------------ HTTP messages
NoPayload ==
  [npy |-> FALSE, version |-> <<0, 0>>, shape |-> <<>>, fortran_order |-> FALSE,
   descr |-> "", body |-> <<>>]

\* An XML element: its tag, its text and its child elements.
Element(tag, text, children) == [tag |-> tag, text |-> text, children |-> children]

NoElement == Element("", <<>>, <<>>)

NoRequest ==
  [method |-> "", path |-> <<>>, query |-> "", prefix |-> <<>>, max_keys |-> 0,
   marker |-> <<>>, data |-> NoPayload, Authorization |-> ""]

NoResponse ==
  [status_code |-> 0, path |-> <<>>, Authorization |-> "", content |-> NoPayload,
   xml |-> FALSE, root |-> NoElement]

\* root.iter(tag): the element and its descendants with that tag, in
\* document order (listings nest two levels deep).
IterTag(root, tag) ==
  LET own(e) == IF e.tag = tag THEN <<e>> ELSE <<>>
      below(e) == Flatten([k \in 1..Len(e.children) |-> own(e.children[k])])
  IN own(root)
       \o Flatten([k \in 1..Len(root.children) |->
                     own(root.children[k]) \o below(root.children[k])])

\* root.find(tag): the first child with that tag, as a list of at most one.
FindTag(root, tag) ==
  LET hits == {k \in 1..Len(root.children) : root.children[k].tag = tag}
  IN IF hits = {} THEN <<>>
     ELSE <<root.children[CHOOSE k \in hits : \A j \in hits : k <= j]>>

\* bool(element) for the result of find: None is false, and an element is
\* true exactly when it has child elements.
ElementTruth(found) == found # <<>> /\ Len(found[1].children) # 0

\* ------------------------------------------------------------ authentication
NoAuth == [kind |-> "none", prefixes |-> {}]

\* _BearerAuth.__call__ without the check of the prefixes.
BearerAuthCall_unchecked(auth, r) ==
  [err |-> "", request |-> [r EXCEPT !.Authorization = "Bearer"]]

\* _BearerAuth.__call__(r): [err, request].
BearerAuthCall(auth, r) ==
  LET path == LStrip(r.path, "/")
  IN IF ~(\E prefix \in auth.prefixes : StartsWith(path, prefix))
     THEN [err |-> "AuthorisationFailed", request |-> r]
     ELSE [err |-> "", request |-> [r EXCEPT !.Authorization = "Bearer"]]

\* _AWSAuth.__call__(r): [err, request].
AWSAuthCall(auth, r) == [err |-> "", request |-> [r EXCEPT !.Authorization = "AWS"]]

\* requests applies session.auth, if any, while it prepares the request.
PrepareAuth(auth, r) ==
  IF auth.kind = "bearer" THEN BearerAuthCall(auth, r)
  ELSE IF auth.kind = "aws" THEN AWSAuthCall(auth, r)
  ELSE [err |-> "", request |-> r]

\* A JWT token as decode_jwt sees it: whether it decodes, and its 'prefix'
\* claim, if it has one, as a list of at most one set of prefixes.
Token(valid, prefix) == [valid |-> valid, prefix |-> prefix]

\* _BearerAuth.__init__(token): [err, auth].
BearerAuthInit(token) ==
  IF ~token.valid THEN [err |-> "AuthorisationFailed", auth |-> NoAuth]
  ELSE IF token.prefix = <<>> THEN [err |-> "AuthorisationFailed", auth |-> NoAuth]
  ELSE [err |-> "", auth |-> [kind |-> "bearer", prefixes |-> token.prefix[1]]]

\* _auth_factory that lets credentials win when a token is given as well.
auth_factory_credentials_win(url, token, credentials) ==
  IF credentials THEN [err |-> "", auth |-> [kind |-> "aws", prefixes |-> {}]]
  ELSE IF token # <<>> THEN
    IF url.scheme # "https" /\ url.hostname # "127.0.0.1"
    THEN [err |-> "AuthorisationFailed", auth |-> NoAuth]
    ELSE BearerAuthInit(token[1])
  ELSE [err |-> "", auth |-> NoAuth]

\* _auth_factory(url, token=None, credentials=None): [err, auth].  token is a
\* list of at most one token, credentials whether a key pair is given; the
\* botocore package is installed.
auth_factory(url, token, credentials) ==
  IF token # <<>> /\ credentials THEN [err |-> "AuthorisationFailed", auth |-> NoAuth]
  ELSE IF token # <<>> THEN
    IF url.scheme # "https" /\ url.hostname # "127.0.0.1"
    THEN [err |-> "AuthorisationFailed", auth |-> NoAuth]
    ELSE BearerAuthInit(token[1])
  ELSE IF credentials THEN [err |-> "", auth |-> [kind |-> "aws", prefixes |-> {}]]
  ELSE [err |-> "", auth |-> NoAuth]

\* -------------------------------------------------------------- error kinds
\* requests.Response.raise_for_status raises for 4xx and 5xx.
IsHTTPError(status_code) == 400 <= status_code /\ status_code < 600

\* _raise_for_status with 404 left out of the statuses of a missing object.
raise_for_status_without_404(response) ==
  LET parts == SelectSeq(split(response.path, -1), LAMBDA part : part # <<>>)
      is_bucket == Len(parts) <= 1
  IN IF ~IsHTTPError(response.status_code) THEN ""
     ELSE IF response.status_code = 401 THEN "AuthorisationFailed"
     ELSE IF response.status_code = 403 /\ ~is_bucket THEN "ChunkNotFound"
     ELSE "StoreUnavailable"

\* _raise_for_status taking a bucket's path for an object's.
raise_for_status_bucket_as_object(response) ==
  LET parts == SelectSeq(split(response.path, -1), LAMBDA part : part # <<>>)
      is_bucket == Len(parts) < 1
  IN IF ~IsHTTPError(response.status_code) THEN ""
     ELSE IF response.status_code = 401 THEN "AuthorisationFailed"
     ELSE IF response.status_code \in {403, 404} /\ ~is_bucket THEN "ChunkNotFound"
     ELSE "StoreUnavailable"

\* _raise_for_status treating a 401 like a 403.
raise_for_status_401_as_403(response) ==
  LET parts == SelectSeq(split(response.path, -1), LAMBDA part : part # <<>>)
      is_bucket == Len(parts) <= 1
  IN IF ~IsHTTPError(response.status_code) THEN ""
     ELSE IF response.status_code \in {401, 403, 404} /\ ~is_bucket THEN "ChunkNotFound"
     ELSE "StoreUnavailable"

\* _raise_for_status(response): the error raised, "" when none is.
raise_for_status(response) ==
  LET parts == SelectSeq(split(response.path, -1), LAMBDA part : part # <<>>)
      is_bucket == Len(parts) <= 1
  IN IF ~IsHTTPError(response.status_code) THEN ""
     ELSE IF response.status_code = 401 THEN "AuthorisationFailed"
     ELSE IF response.status_code \in {403, 404} /\ ~is_bucket THEN "ChunkNotFound"
     ELSE "StoreUnavailable"

\* error_map of S3ChunkStore.__init__, as _standard_errors applies it.
standard_errors(err) ==
  IF err \in {"RequestException", "ParseError"} THEN "StoreUnavailable" ELSE err

\* ------------------------------------------------------------------ server
\* The S3-compatible server: its buckets and, under "<bucket>/<key>", its
\* objects.  A request path names the root, a bucket or an object.
TEXT_TRUE == <<"t", "r", "u", "e">>
TEXT_FALSE == <<"f", "a", "l", "s", "e">>

EmptyMap == [k \in {} |-> NoPayload]

MapPut(m, k, v) == [j \in DOMAIN m \cup {k} |-> IF j = k THEN v ELSE m[j]]

Target(req) == split(LStrip(unquote(req.path), "/"), 1)

BucketKeys(objs, bucket) ==
  {DropFirst(p, Len(bucket) + 1) : p \in {q \in DOMAIN objs : StartsWith(q, bucket \o NAME_SEP)}}

\* GET Bucket (List Objects) version 1: the keys with the prefix that follow
\* the marker, in key order, at most max-keys of them.  A server may or may
\* not state NextMarker (states_marker).
ListObjects(objs, bucket, prefix, marker, max_keys, states_marker) ==
  LET all == SortKeys({k \in BucketKeys(objs, bucket) :
                         StartsWith(k, prefix) /\ (marker = <<>> \/ LexLess(marker, k))})
      page == SubSeq(all, 1, Min(max_keys, Len(all)))
      truncated == Len(all) > Len(page)
  IN Element("ListBucketResult", <<>>,
       <<Element("IsTruncated", IF truncated THEN TEXT_TRUE ELSE TEXT_FALSE, <<>>)>>
       \o (IF truncated /\ states_marker /\ page # <<>>
              THEN <<Element("NextMarker", page[Len(page)], <<>>)>> ELSE <<>>)
       \o [k \in 1..Len(page) |->
             Element("Contents", <<>>, <<Element("Key", page[k], <<>>)>>)])

Reply(req, status_code) ==
  [NoResponse EXCEPT !.status_code = status_code, !.path = req.path,
                     !.Authorization = req.Authorization]

\* What the server answers to a request and what it then holds:
\* [response, buckets, objects].
Serve(req, bkts, objs, states_marker) ==
  LET target == Target(req)
      bucket == target[1]
      same(status_code) ==
        [response |-> Reply(req, status_code), buckets |-> bkts, objects |-> objs]
  IN IF bucket = <<>> THEN same(200)
     ELSE IF Len(target) = 1 \/ target[2] = <<>> THEN
       IF req.method = "PUT" /\ req.query = "" THEN
         IF bucket \in bkts THEN same(409)
         ELSE [response |-> Reply(req, 200), buckets |-> bkts \cup {bucket},
               objects |-> objs]
       ELSE IF bucket \notin bkts THEN same(404)
       ELSE IF req.method = "GET" THEN
         [response |->
            [Reply(req, 200) EXCEPT
               !.xml = TRUE,
               !.root = ListObjects(objs, bucket, req.prefix, req.marker,
                                    req.max_keys, states_marker)],
          buckets |-> bkts, objects |-> objs]
       ELSE same(200)
     ELSE IF bucket \notin bkts THEN same(404)
     ELSE IF req.method = "PUT" THEN
       [response |-> Reply(req, 200), buckets |-> bkts,
        objects |-> MapPut(objs, join(bucket, target[2]), req.data)]
     ELSE IF join(bucket, target[2]) \notin DOMAIN objs THEN same(404)
     ELSE IF req.method = "HEAD" THEN same(200)
     ELSE [response |->
             [Reply(req, 200) EXCEPT !.content = objs[join(bucket, target[2])]],
           buckets |-> bkts, objects |-> objs]

\* ------------------------------------------------------------------- state
VARIABLES
  args,          \* the arguments S3ChunkStore.__init__ is called with
  constructed,   \* "no", "yes" or "failed": how S3ChunkStore.__init__ ended
  init_status,   \* the status of the answer to the smoke test of __init__, 0 if
                 \* none: local to __init__, forgotten at the first call made
  init_error,    \* the error __init__ raised, "" if none
  init_sent,     \* whether the smoke test of __init__ reached the server
  auth,          \* the handler _auth_factory returned
  public_read,   \* S3ChunkStore.public_read
  expiry_days,   \* S3ChunkStore.expiry_days
  buckets,       \* server: the buckets that exist
  objects,       \* server: object path |-> stored payload
  written,       \* object path |-> [array_name, idx, chunk] of the last put_chunk stored there
  completed,     \* the array names mark_complete has returned for, every request served
  pool,          \* _Pool._pool, the free list of sessions
  created,       \* number of sessions the factory has made
  pc,            \* per thread: "idle", "get", "send", "put", "done"
  call,          \* per thread: the operation in progress and its arguments
  session,       \* per thread: the session checked out, as a list of at most one
  request,       \* per thread: the request being made
  response,      \* per thread: the response received
  keys,          \* per thread: list_chunk_ids' keys
  result,        \* per thread: what the operation returned or raised
  took,          \* per thread: ids of the sessions this operation checked out
  sent,          \* per thread: number of requests of this operation the server received
  faulty,        \* per thread: whether the server or network failed this operation
  served,        \* per thread: what `written` held for the object when GET was served
  dirty,         \* per thread: whether an object was stored while this listing ran
  arg,           \* the arguments of a function called on its own
  ret,           \* what that call returned or raised
  nops,          \* number of operations started
  nfaults,       \* number of requests the network or the server has failed
  raised         \* whether an operation has raised inside a request's with block

cfgvars == <<args, constructed, init_error, init_sent, init_status, auth,
             public_read, expiry_days>>
srvvars == <<buckets, objects, written>>
poolvars == <<pool, created>>
thvars == <<pc, call, session, request, response, keys, result, took, sent,
            faulty, served, dirty>>
purevars == <<arg, ret>>
vars ==
  <<cfgvars, srvvars, poolvars, thvars, purevars, completed, nops, nfaults, raised>>

Threads == 1..NThreads

\* ------------------------------------------------------------------ inputs
BucketB == <<"b">>
ArrayX == <<"b", "/", "x">>
ArrayXY == <<"b", "/", "x", " ", "y">>
ArrayC == <<"c", "/", "x">>
ArrayXP == <<"b", "/", "x", "%", "2", "0", "y">>

Slice(start, stop, step) == [start |-> start, stop |-> stop, step |-> step]

Array(shape, dtype, fortran, elems) ==
  [shape |-> shape, dtype |-> dtype, fortran |-> fortran, elems |-> elems]

\* Slice specifications: 0-dimensional, one dimension, one empty dimension,
\* two dimensions.
Slices0 == <<>>
Slices1 == <<Slice(0, 2, 1)>>
SlicesEmpty == <<Slice(2, 2, NoStep)>>
Slices2 == <<Slice(0, 2, 1), Slice(2, 4, NoStep)>>

PutInput(array_name, slices, chunk) ==
  [array_name |-> array_name, slices |-> slices, chunk |-> chunk]

\* The calls of put_chunk: every kind of chunk under one array (the last
\* with slices that do not fit it), and a chunk under an array whose name
\* starts with the name of the first.
PutInputs ==
  { PutInput(ArrayX, Slices0, Array(<<>>, "u2", FALSE, <<513>>)),
    PutInput(ArrayX, Slices1, Array(<<2>>, "u1", FALSE, <<1, 2>>)),
    PutInput(ArrayX, Slices1, Array(<<2>>, "u2", FALSE, <<258, 3>>)),
    PutInput(ArrayX, SlicesEmpty, Array(<<0>>, "u1", FALSE, <<>>)),
    PutInput(ArrayX, Slices2, Array(<<2, 2>>, "u1", TRUE, <<1, 2, 3, 4>>)),
    PutInput(ArrayX, SlicesEmpty, Array(<<2>>, "u1", FALSE, <<1, 2>>)),
    PutInput(ArrayXY, Slices1, Array(<<2>>, "u1", FALSE, <<1, 2>>)) }

GetInput(array_name, slices, dtype) ==
  [array_name |-> array_name, slices |-> slices, dtype |-> dtype]

\* The calls of get_chunk: each chunk that is put, with its dtype and with
\* another, and a chunk in a bucket that may not exist.
GetInputs ==
  { GetInput(ArrayX, Slices0, "u2"), GetInput(ArrayX, Slices1, "u1"),
    GetInput(ArrayX, Slices1, "u2"), GetInput(ArrayX, SlicesEmpty, "u1"),
    GetInput(ArrayX, Slices2, "u1"), GetInput(ArrayXY, Slices1, "u1"),
    GetInput(ArrayC, Slices1, "u1") }

\* The calls of has_chunk.
HasInputs ==
  { GetInput(ArrayX, Slices1, "u1"), GetInput(ArrayXY, Slices1, "u1"),
    GetInput(ArrayC, Slices1, "u1") }

\* The calls of create_array and of list_chunk_ids (with the page-size cap,
\* S3ChunkStore.list_max_keys, the call runs under).
CreateInputs == {ArrayX, ArrayC}

\* The calls of mark_complete and of is_complete.
MarkInputs == {ArrayX, ArrayXY, ArrayC}
CompleteInputs == {ArrayX, ArrayXY, ArrayXP, ArrayC}

ListInput(array_name, max_keys) == [array_name |-> array_name, max_keys |-> max_keys]

ListInputs == {ListInput(ArrayX, 1), ListInput(ArrayX, 2), ListInput(ArrayC, 1)}

\* The calls threads make concurrently: two values for one chunk, a chunk of
\* another array, and the reads of the first.
SharedPuts ==
  { PutInput(ArrayX, Slices1, Array(<<2>>, "u1", FALSE, <<1, 2>>)),
    PutInput(ArrayX, Slices1, Array(<<2>>, "u2", FALSE, <<258, 3>>)),
    PutInput(ArrayXY, Slices1, Array(<<2>>, "u1", FALSE, <<1, 2>>)) }
SharedGets == {GetInput(ArrayX, Slices1, "u1")}
SharedHas == {GetInput(ArrayX, Slices1, "u1")}
SharedCreates == {ArrayX}
SharedLists == {ListInput(ArrayX, 1)}

\* What the network and the server can do with a request: serve it (a
\* server may or may not state NextMarker in a listing), refuse the
\* connection, or answer with an error status.
\* A 304 stands for the 3xx answers requests does not follow (those
\* without a Location header).  The server may also answer a GET of a chunk
\* with a malformed payload: an unsupported format version, an object
\* dtype, or a body cut short; and a listing with a page that is marked
\* truncated and holds no key, with or without a NextMarker (the case
\* list_chunk_ids warns about).
Outcomes ==
  {"serve", "serve_marker", "refuse", "304", "401", "403", "500",
   "bad_version", "object_dtype", "short_body", "no_keys", "no_keys_marker"}

Served(outcome) == outcome \in {"serve", "serve_marker"}

Corrupts(outcome) == outcome \in {"bad_version", "object_dtype", "short_body"}

FaultStatus(outcome) ==
  IF outcome = "304" THEN 304
  ELSE IF outcome = "401" THEN 401
  ELSE IF outcome = "403" THEN 403
  ELSE 500

EmptyPages(outcome) == outcome \in {"no_keys", "no_keys_marker"}

\* A page of a listing that is marked truncated and holds no key; the
\* NextMarker, if the server states one, is where the request started.
EmptyTruncatedPage(outcome, req) ==
  Element("ListBucketResult", <<>>,
    <<Element("IsTruncated", TEXT_TRUE, <<>>)>>
    \o (IF outcome = "no_keys_marker"
        THEN <<Element("NextMarker",
                       IF req.marker # <<>> THEN req.marker ELSE req.prefix, <<>>)>>
        ELSE <<>>))

\* The payload as a malformed answer carries it.
Corrupt(outcome, payload) ==
  IF outcome = "bad_version" THEN [payload EXCEPT !.version = <<3, 0>>]
  ELSE IF outcome = "object_dtype" THEN [payload EXCEPT !.descr = "O"]
  ELSE [payload EXCEPT !.body = DropLast(@, 1)]

\* The arguments a store is constructed with.
Url(scheme, hostname) == [scheme |-> scheme, hostname |-> hostname]

Args(url, token, credentials, public_read_, expiry_days_) ==
  [url |-> url, token |-> token, credentials |-> credentials,
   public_read |-> public_read_, expiry_days |-> expiry_days_]

TokenAll == Token(TRUE, <<{<<>>}>>)
TokenX == Token(TRUE, <<{ArrayX}>>)

\* Anonymous; a token for every path, with bucket policies; a token for one
\* array only.
SharedConfigs ==
  { Args(Url("http", "s3"), <<>>, FALSE, FALSE, 0),
    Args(Url("https", "s3"), <<TokenAll>>, FALSE, TRUE, 1),
    Args(Url("https", "s3"), <<TokenX>>, FALSE, FALSE, 0) }

\* Those, and: credentials; a token over plain http to the local host and
\* to another; a token and credentials; a token that does not decode and
\* one without a prefix claim; a bucket policy without expiry and expiry
\* without a bucket policy.
Configs ==
  SharedConfigs \cup
  { Args(Url("http", "s3"), <<>>, TRUE, FALSE, 0),
    Args(Url("http", "127.0.0.1"), <<TokenX>>, FALSE, FALSE, 0),
    Args(Url("http", "s3"), <<TokenAll>>, FALSE, FALSE, 0),
    Args(Url("https", "s3"), <<TokenAll>>, TRUE, FALSE, 0),
    Args(Url("https", "s3"), <<Token(FALSE, <<>>)>>, FALSE, FALSE, 0),
    Args(Url("https", "s3"), <<Token(TRUE, <<>>)>>, FALSE, FALSE, 0),
    Args(Url("http", "s3"), <<>>, FALSE, TRUE, 0),
    Args(Url("http", "s3"), <<>>, FALSE, FALSE, 2) }

NoCall ==
  [op |-> "", array_name |-> <<>>, slices |-> <<>>, chunk |-> NoChunk,
   dtype |-> "", chunk_name |-> <<>>, shape |-> <<>>, max_keys |-> 0, stage |-> 0]

NoResult == [err |-> "", chunk |-> NoChunk, flag |-> FALSE, ids |-> <<>>]

NoServed == [present |-> FALSE, chunk |-> NoChunk]

InitWith(configs) ==
  /\ args \in configs
  /\ constructed = "no" /\ init_error = "" /\ init_sent = FALSE /\ init_status = 0
  /\ auth = NoAuth /\ public_read = FALSE /\ expiry_days = 0
  /\ buckets = {BucketB} /\ objects = EmptyMap /\ written = EmptyMap
  /\ completed = {}
  /\ pool = <<>> /\ created = 0
  /\ pc = [t \in Threads |-> "idle"]
  /\ call = [t \in Threads |-> NoCall]
  /\ session = [t \in Threads |-> <<>>]
  /\ request = [t \in Threads |-> NoRequest]
  /\ response = [t \in Threads |-> NoResponse]
  /\ keys = [t \in Threads |-> <<>>]
  /\ result = [t \in Threads |-> NoResult]
  /\ took = [t \in Threads |-> {}]
  /\ sent = [t \in Threads |-> 0]
  /\ faulty = [t \in Threads |-> FALSE]
  /\ served = [t \in Threads |-> NoServed]
  /\ dirty = [t \in Threads |-> FALSE]
  /\ nops = 0
  /\ nfaults = 0
  /\ raised = FALSE

NoArg == [fn |-> ""]
NoRet == [done |-> FALSE]

Init == InitWith(Configs) /\ arg = NoArg /\ ret = NoRet

\* ----------------------------------------------------------------- _Pool
\* session_factory(): a new session, bound to the store's auth handler.
session_factory(n) == [id |-> n + 1, auth |-> auth]

\* _Pool.get() that leaves the item it returns in the free list.
pool_get_without_pop(p, n) ==
  IF p = <<>> THEN [item |-> session_factory(n), pool |-> p, created |-> n + 1]
  ELSE [item |-> p[Len(p)], pool |-> p, created |-> n]

\* _Pool.get(), under the pool's lock: [item, pool, created].
\* _Pool.get calling the factory whatever the free list holds.
pool_get_always_new(p, n) ==
  [item |-> session_factory(n), pool |-> p, created |-> n + 1]

pool_get(p, n) ==
  IF p = <<>> THEN [item |-> session_factory(n), pool |-> p, created |-> n + 1]
  ELSE [item |-> p[Len(p)], pool |-> DropLast(p, 1), created |-> n]

\* _Pool.put(item), under the pool's lock.
pool_put(p, item) == Append(p, item)

\* ------------------------------------------------------------ constructor
\* S3ChunkStore.__init__: the smoke test GET of the base URL on a session
\* of its own.  A 403 answer to a request that carried no Authorization
\* header is let through.
\* The smoke test letting every 403 pass.
SmokeTestError_any_403(resp) ==
  IF resp.status_code # 403 THEN raise_for_status(resp) ELSE ""

SmokeTestError(resp) ==
  IF resp.status_code # 403 \/ resp.Authorization # "" THEN raise_for_status(resp)
  ELSE ""

Construct ==
  /\ constructed = "no"
  /\ \E outcome \in Outcomes \ {"bad_version", "object_dtype", "short_body", "no_keys",
                              "no_keys_marker"} :
       LET made == auth_factory(args.url, args.token, args.credentials)
           prep == PrepareAuth(made.auth,
                               [NoRequest EXCEPT !.method = "GET", !.path = <<"/">>])
           resp == IF Served(outcome)
                   THEN Serve(prep.request, buckets, objects, FALSE).response
                   ELSE Reply(prep.request, FaultStatus(outcome))
           err == IF made.err # "" THEN made.err
                  ELSE IF prep.err # "" THEN prep.err
                  ELSE IF outcome = "refuse" THEN standard_errors("RequestException")
                  ELSE standard_errors(SmokeTestError(resp))
           was_sent == made.err = "" /\ prep.err = ""
       IN /\ constructed' = IF err = "" THEN "yes" ELSE "failed"
          /\ init_error' = err
          /\ init_sent' = was_sent
          /\ init_status' = IF was_sent /\ outcome # "refuse"
                            THEN resp.status_code ELSE 0
          /\ auth' = made.auth
          /\ public_read' = IF err = "" THEN args.public_read ELSE public_read
          /\ expiry_days' = IF err = "" THEN args.expiry_days ELSE expiry_days
  /\ UNCHANGED <<args, srvvars, poolvars, thvars, purevars, completed, nops, nfaults, raised>>

\* ------------------------------------------------------- starting a call
\* S3ChunkStore._chunk_url(chunk_name): the path of the chunk's URL.
chunk_url(chunk_name) == urljoin(quote(chunk_name \o NPY_EXT))

\* The URL create_array and list_chunk_ids build for a bucket.
bucket_url(bucket) == urljoin(quote(bucket))

\* The URL mark_complete and is_complete build for the sentinel object of an
\* array, urljoin(self._url, obj_name) with the name as it is, as requests
\* sends it.
complete_url(array_name) == requote_uri(urljoin(join(array_name, COMPLETE)))

\* Threads are interchangeable: a thread makes its first call once the
\* threads before it have made theirs.
CanStart(t) ==
  /\ constructed = "yes" /\ pc[t] \in {"idle", "done"} /\ nops < MaxOps
  /\ \A u \in Threads : u < t => pc[u] # "idle"

\* A thread enters an operation: c is the call, err the error raised before
\* any request ("" if none), req the first request.
Enter(t, c, err, req) ==
  /\ call' = [call EXCEPT ![t] = c]
  /\ pc' = [pc EXCEPT ![t] = IF err = "" THEN "get" ELSE "done"]
  /\ result' = [result EXCEPT ![t] = [NoResult EXCEPT !.err = err]]
  /\ request' = [request EXCEPT ![t] = IF err = "" THEN req ELSE NoRequest]
  /\ response' = [response EXCEPT ![t] = NoResponse]
  /\ keys' = [keys EXCEPT ![t] = <<>>]
  /\ took' = [took EXCEPT ![t] = {}]
  /\ sent' = [sent EXCEPT ![t] = 0]
  /\ faulty' = [faulty EXCEPT ![t] = FALSE]
  /\ served' = [served EXCEPT ![t] = NoServed]
  /\ dirty' = [dirty EXCEPT ![t] = FALSE]
  /\ nops' = nops + 1
  /\ init_status' = 0
  /\ UNCHANGED <<args, constructed, init_error, init_sent, auth, public_read,
                 expiry_days>>
  /\ UNCHANGED <<session, srvvars, poolvars, purevars, completed, nfaults, raised>>

get_chunk(t, inputs) ==
  /\ CanStart(t)
  /\ \E input \in inputs :
       LET md == chunk_metadata(input.array_name, input.slices, <<>>, <<input.dtype>>)
       IN Enter(t, [NoCall EXCEPT !.op = "get_chunk",
                                  !.array_name = input.array_name,
                                  !.slices = input.slices, !.dtype = input.dtype,
                                  !.chunk_name = md.chunk_name, !.shape = md.shape],
                md.err,
                [NoRequest EXCEPT !.method = "GET", !.path = chunk_url(md.chunk_name)])

\* put_chunk naming the object by the bucket and the chunk's index alone.
put_chunk_by_index(t, inputs) ==
  /\ CanStart(t)
  /\ \E input \in inputs :
       LET md == chunk_metadata(input.array_name, input.slices, <<input.chunk>>, <<>>)
           name == join(split(input.array_name, 1)[1], chunk_id_str(input.slices))
       IN Enter(t, [NoCall EXCEPT !.op = "put_chunk",
                                  !.array_name = input.array_name,
                                  !.slices = input.slices, !.chunk = input.chunk,
                                  !.chunk_name = md.chunk_name, !.shape = md.shape],
                md.err,
                [NoRequest EXCEPT !.method = "PUT", !.path = chunk_url(name),
                                  !.data = npy_header_and_body(input.chunk)])

put_chunk(t, inputs) ==
  /\ CanStart(t)
  /\ \E input \in inputs :
       LET md == chunk_metadata(input.array_name, input.slices, <<input.chunk>>, <<>>)
       IN Enter(t, [NoCall EXCEPT !.op = "put_chunk",
                                  !.array_name = input.array_name,
                                  !.slices = input.slices, !.chunk = input.chunk,
                                  !.chunk_name = md.chunk_name, !.shape = md.shape],
                md.err,
                [NoRequest EXCEPT !.method = "PUT", !.path = chunk_url(md.chunk_name),
                                  !.data = npy_header_and_body(input.chunk)])

has_chunk(t, inputs) ==
  /\ CanStart(t)
  /\ \E input \in inputs :
       LET md == chunk_metadata(input.array_name, input.slices, <<>>, <<input.dtype>>)
       IN Enter(t, [NoCall EXCEPT !.op = "has_chunk",
                                  !.array_name = input.array_name,
                                  !.slices = input.slices, !.dtype = input.dtype,
                                  !.chunk_name = md.chunk_name, !.shape = md.shape],
                md.err,
                [NoRequest EXCEPT !.method = "HEAD", !.path = chunk_url(md.chunk_name)])

\* create_array starts with the PUT of the bucket (stage 1); the bucket
\* policy (stage 2) and the lifecycle policy (stage 3) follow.
create_array(t, inputs) ==
  /\ CanStart(t)
  /\ \E array_name \in inputs :
       LET bucket == split(array_name, -1)[1]
       IN Enter(t, [NoCall EXCEPT !.op = "create_array", !.array_name = array_name,
                                  !.stage = 1],
                "",
                [NoRequest EXCEPT !.method = "PUT", !.path = bucket_url(bucket)])

list_chunk_ids(t, inputs) ==
  /\ CanStart(t)
  /\ \E input \in inputs :
       LET parts == split(input.array_name, 1)
       IN Enter(t, [NoCall EXCEPT !.op = "list_chunk_ids",
                                  !.array_name = input.array_name,
                                  !.max_keys = input.max_keys],
                IF Len(parts) # 2 THEN "ValueError" ELSE "",
                [NoRequest EXCEPT !.method = "GET", !.path = bucket_url(parts[1]),
                                  !.prefix = parts[Len(parts)],
                                  !.max_keys = input.max_keys])

\* mark_complete starts with create_array (stages 1 to 3); the PUT of the
\* empty sentinel object (stage 4) follows.
mark_complete(t, inputs) ==
  /\ CanStart(t)
  /\ \E array_name \in inputs :
       LET bucket == split(array_name, -1)[1]
       IN Enter(t, [NoCall EXCEPT !.op = "mark_complete", !.array_name = array_name,
                                  !.stage = 1],
                "",
                [NoRequest EXCEPT !.method = "PUT", !.path = bucket_url(bucket)])

is_complete(t, inputs) ==
  /\ CanStart(t)
  /\ \E array_name \in inputs :
       Enter(t, [NoCall EXCEPT !.op = "is_complete", !.array_name = array_name],
             "",
             [NoRequest EXCEPT !.method = "GET", !.path = complete_url(array_name)])

\* -------------------------------------------------------- running a request
\* The operation of thread t ends: its result is set, its pc is "done".
Finish(t, res) ==
  /\ pc' = [pc EXCEPT ![t] = "done"]
  /\ result' = [result EXCEPT ![t] = res]

\* has_chunk without its except clause.
Raised_uncaught(c, err) == [NoResult EXCEPT !.err = err]

\* What an operation makes of an error raised in its request scope:
\* has_chunk and is_complete return False on ChunkNotFound, anything else
\* is raised on.
Raised(c, err) ==
  IF c.op \in {"has_chunk", "is_complete"} /\ err = "ChunkNotFound"
  THEN [NoResult EXCEPT !.flag = FALSE]
  ELSE [NoResult EXCEPT !.err = err]

\* An error leaves the scope of _Pool.__call__.  The generator of the
\* context manager is resumed by the exception at its yield, so the
\* statement after the yield (the put) does not run: the session is dropped.
Raise(t, err) ==
  /\ session' = [session EXCEPT ![t] = <<>>]
  /\ Finish(t, Raised(call[t], err))

\* _Pool.__call__ up to its yield: item = self.get().
PoolGet(t) ==
  /\ pc[t] = "get"
  /\ LET got == pool_get(pool, created)
     IN /\ pool' = got.pool
        /\ created' = got.created
        /\ session' = [session EXCEPT ![t] = <<got.item>>]
        /\ took' = [took EXCEPT ![t] = @ \cup {got.item.id}]
  /\ pc' = [pc EXCEPT ![t] = "send"]
  /\ UNCHANGED <<cfgvars, srvvars, call, request, response, keys, result, sent,
                 faulty, served, dirty, purevars, completed, nops, nfaults, raised>>

\* Whether the call is at the bucket PUT of create_array, in create_array
\* itself or in the create_array that mark_complete calls.
BucketPut(c) == c.op \in {"create_array", "mark_complete"} /\ c.stage = 1

\* The request scope with create_array checking the status of every answer.
ScopeError_no_conflict(c, resp) ==
  IF raise_for_status(resp) # "" THEN raise_for_status(resp)
  ELSE IF c.op = "get_chunk" THEN read_array(resp.content).err
  ELSE IF c.op = "list_chunk_ids" /\ ~resp.xml THEN "ParseError"
  ELSE ""

\* The error raised inside the request scope once the response is there:
\* _raise_for_status (create_array lets a 409 on the bucket through), then
\* the body of the with block.
ScopeError(c, resp) ==
  LET status_err == IF BucketPut(c) /\ resp.status_code = 409
                    THEN "" ELSE raise_for_status(resp)
  IN IF status_err # "" THEN status_err
     ELSE IF c.op = "get_chunk" THEN read_array(resp.content).err
     ELSE IF c.op = "list_chunk_ids" /\ ~resp.xml THEN "ParseError"
     ELSE ""

\* session.request(method, url, ...) and the body of its with block: the
\* auth handler prepares the request, the network carries it, the server
\* answers, the status is checked and the payload read.
Send(t) ==
  /\ pc[t] = "send"
  /\ \E outcome \in Outcomes :
       LET prep == PrepareAuth(session[t][1].auth, request[t])
           good == Serve(prep.request, buckets, objects, outcome = "serve_marker")
           ans == IF Served(outcome) THEN good
                  ELSE IF Corrupts(outcome)
                    THEN [good EXCEPT
                            !.response.content = Corrupt(outcome, good.response.content)]
                  ELSE IF EmptyPages(outcome)
                    THEN [good EXCEPT
                            !.response.root = EmptyTruncatedPage(outcome, prep.request)]
                  ELSE [response |-> Reply(prep.request, FaultStatus(outcome)),
                        buckets |-> buckets, objects |-> objects]
           path == LStrip(unquote(request[t].path), "/")
           stored == /\ Served(outcome)
                     /\ request[t].method = "PUT"
                     /\ ans.response.status_code = 200
                     /\ path \in DOMAIN ans.objects
           err == ScopeError(call[t], ans.response)
       IN IF prep.err # "" THEN
            /\ Raise(t, standard_errors(prep.err))
            /\ UNCHANGED <<srvvars, request, response, sent, faulty, served, dirty,
                           nfaults>>
          ELSE
            /\ Served(outcome) \/ nfaults < MaxFaults
            /\ Corrupts(outcome) =>
                 /\ call[t].op = "get_chunk" /\ good.response.content.npy
                 /\ outcome = "short_body" => good.response.content.body # <<>>
            /\ EmptyPages(outcome) =>
                 call[t].op = "list_chunk_ids" /\ good.response.xml
            /\ nfaults' = IF Served(outcome) THEN nfaults ELSE nfaults + 1
            /\ request' = [request EXCEPT ![t] = prep.request]
            /\ sent' = [sent EXCEPT ![t] = @ + 1]
            /\ faulty' = [faulty EXCEPT ![t] = @ \/ ~Served(outcome)]
            /\ IF outcome = "refuse" THEN
                 /\ Raise(t, standard_errors("RequestException"))
                 /\ UNCHANGED <<srvvars, response, served, dirty>>
               ELSE
                 /\ buckets' = ans.buckets
                 /\ objects' = ans.objects
                 /\ written' =
                      IF stored /\ call[t].op = "put_chunk"
                      THEN MapPut(written, path,
                                  [array_name |-> call[t].array_name,
                                   idx |-> chunk_id_str(call[t].slices),
                                   chunk |-> call[t].chunk])
                      ELSE written
                 /\ response' = [response EXCEPT ![t] = ans.response]
                 /\ served' = [served EXCEPT ![t] =
                                 IF call[t].op = "get_chunk" /\ path \in DOMAIN written
                                 THEN [present |-> TRUE, chunk |-> written[path].chunk]
                                 ELSE NoServed]
                 /\ dirty' = [u \in Threads |->
                                dirty[u] \/ (stored /\ u # t
                                              /\ pc[u] \notin {"idle", "done"})]
                 /\ IF err # "" THEN Raise(t, standard_errors(err))
                    ELSE /\ pc' = [pc EXCEPT ![t] = "put"]
                         /\ UNCHANGED <<session, result>>
  /\ raised' = (raised \/ pc'[t] = "done")
  /\ UNCHANGED <<cfgvars, poolvars, call, keys, took, purevars, completed, nops>>

\* ------------------------------------------------- after the request scope
\* get_chunk checking the shape alone.
GetChunkResult_shape_only(c, resp) ==
  LET chunk == read_array(resp.content).chunk
  IN IF chunk.shape # c.shape
     THEN [NoResult EXCEPT !.err = "BadChunk"]
     ELSE [NoResult EXCEPT !.chunk = chunk]

\* get_chunk after its with block: the shape and dtype check.
GetChunkResult(c, resp) ==
  LET chunk == read_array(resp.content).chunk
  IN IF chunk.shape # c.shape \/ chunk.dtype # c.dtype
     THEN [NoResult EXCEPT !.err = "BadChunk"]
     ELSE [NoResult EXCEPT !.chunk = chunk]

\* create_array putting the bucket policy whatever public_read is.
NextStage_policy_always(stage) ==
  IF stage < 2 THEN 2
  ELSE IF stage < 3 /\ expiry_days > 0 THEN 3
  ELSE 0

\* create_array after a stage: the stage that follows, 0 when it is over.
NextStage(stage) ==
  IF stage < 2 /\ public_read THEN 2
  ELSE IF stage < 3 /\ expiry_days > 0 THEN 3
  ELSE 0

\* One round of the loop of list_chunk_ids after its with block:
\* [keys, more, marker].
ListRound(old_keys, root) ==
  LET found == IterTag(root, "Key")
      all_keys == old_keys \o [k \in 1..Len(found) |-> found[k].text]
      truncated == FindTag(root, "IsTruncated")
      more == truncated # <<>> /\ truncated[1].text = TEXT_TRUE
      next_marker == FindTag(root, "NextMarker")
  IN IF ~more THEN [keys |-> all_keys, more |-> FALSE, marker |-> <<>>]
     ELSE IF ElementTruth(next_marker)
       THEN [keys |-> all_keys, more |-> TRUE, marker |-> next_marker[1].text]
     ELSE IF all_keys # <<>>
       THEN [keys |-> all_keys, more |-> TRUE, marker |-> all_keys[Len(all_keys)]]
     ELSE [keys |-> all_keys, more |-> FALSE, marker |-> <<>>]

\* list_chunk_ids returning an id for every key.
ChunkIds_of_every_key(all_keys, prefix) ==
  [k \in 1..Len(all_keys) |->
     DropLast(DropFirst(all_keys[k], Len(prefix) + 1), Len(NPY_EXT))]

\* The return value of list_chunk_ids:
\* [key[len(prefix) + 1:-4] for key in keys if key.endswith('.npy')].
ChunkIds(all_keys, prefix) ==
  LET npy == SelectSeq(all_keys, LAMBDA key : EndsWith(key, NPY_EXT))
  IN [k \in 1..Len(npy) |-> DropLast(DropFirst(npy[k], Len(prefix) + 1), Len(NPY_EXT))]

\* _Pool.__call__ after its yield: self.put(item); then the rest of the
\* operation up to its next request or its return.
PoolPut(t) ==
  /\ pc[t] = "put"
  /\ pool' = pool_put(pool, session[t][1])
  /\ session' = [session EXCEPT ![t] = <<>>]
  /\ LET c == call[t]
         round == ListRound(keys[t], response[t].root)
     IN IF c.op = "get_chunk" THEN
          /\ Finish(t, GetChunkResult(c, response[t]))
          /\ UNCHANGED <<call, request, keys>>
        ELSE IF c.op \in {"has_chunk", "is_complete"} THEN
          /\ Finish(t, [NoResult EXCEPT !.flag = TRUE])
          /\ UNCHANGED <<call, request, keys>>
        ELSE IF c.op = "mark_complete" /\ c.stage < 4 /\ NextStage(c.stage) = 0 THEN
          /\ call' = [call EXCEPT ![t].stage = 4]
          /\ request' = [request EXCEPT ![t] =
                           [NoRequest EXCEPT !.method = "PUT",
                                             !.path = complete_url(c.array_name)]]
          /\ pc' = [pc EXCEPT ![t] = "get"]
          /\ UNCHANGED <<result, keys>>
        ELSE IF /\ c.op \in {"create_array", "mark_complete"} /\ c.stage < 4
                /\ NextStage(c.stage) # 0 THEN
          /\ call' = [call EXCEPT ![t].stage = NextStage(c.stage)]
          /\ request' = [request EXCEPT ![t] =
                           [@ EXCEPT !.query = IF NextStage(c.stage) = 2
                                               THEN "policy" ELSE "lifecycle",
                                     !.Authorization = ""]]
          /\ pc' = [pc EXCEPT ![t] = "get"]
          /\ UNCHANGED <<result, keys>>
        ELSE IF c.op = "list_chunk_ids" /\ round.more THEN
          /\ keys' = [keys EXCEPT ![t] = round.keys]
          /\ request' = [request EXCEPT ![t] =
                           [@ EXCEPT !.marker = round.marker, !.Authorization = ""]]
          /\ pc' = [pc EXCEPT ![t] = "get"]
          /\ UNCHANGED <<call, result>>
        ELSE IF c.op = "list_chunk_ids" THEN
          /\ keys' = [keys EXCEPT ![t] = round.keys]
          /\ Finish(t, [NoResult EXCEPT !.ids = ChunkIds(round.keys, request[t].prefix)])
          /\ UNCHANGED <<call, request>>
        ELSE
          /\ Finish(t, NoResult)
          /\ UNCHANGED <<call, request, keys>>
  /\ completed' = IF call[t].op = "mark_complete" /\ call[t].stage = 4 /\ ~faulty[t]
                  THEN completed \cup {call[t].array_name} ELSE completed
  /\ UNCHANGED <<cfgvars, srvvars, created, response, took, sent, faulty, served,
                 dirty, purevars, nops, nfaults, raised>>

\* ------------------------------------------------------------ specification
\* One caller: a single thread, the first, makes every call, with any of
\* the inputs.
Caller == CHOOSE t \in Threads : \A u \in Threads : t <= u

Next ==
  \/ Construct
  \/ get_chunk(Caller, GetInputs)
  \/ put_chunk(Caller, PutInputs)
  \/ has_chunk(Caller, HasInputs)
  \/ create_array(Caller, CreateInputs)
  \/ list_chunk_ids(Caller, ListInputs)
  \/ mark_complete(Caller, MarkInputs)
  \/ is_complete(Caller, CompleteInputs)
  \/ PoolGet(Caller)
  \/ Send(Caller)
  \/ PoolPut(Caller)

Spec == Init /\ [][Next]_vars

\* Concurrent callers: every thread makes calls on the shared store.
NextThreads ==
  \/ Construct
  \/ \E t \in Threads : get_chunk(t, SharedGets)
  \/ \E t \in Threads : put_chunk(t, SharedPuts)
  \/ \E t \in Threads : has_chunk(t, SharedHas)
  \/ \E t \in Threads : create_array(t, SharedCreates)
  \/ \E t \in Threads : list_chunk_ids(t, SharedLists)
  \/ \E t \in Threads : PoolGet(t)
  \/ \E t \in Threads : Send(t)
  \/ \E t \in Threads : PoolPut(t)

InitThreads == InitWith(SharedConfigs) /\ arg = NoArg /\ ret = NoRet

SpecThreads == InitThreads /\ [][NextThreads]_vars

\* chunk_metadata called on its own, as the base class's tests call it.
\* The slice specifications: 3 and slice(10) (not iterable), (), [3, 2],
\* [slice(10)], [slice(3, None)], [slice(0, 10, 2)], [slice(0, 10, 1)],
\* [slice(0, 2)], [slice(2, 2, 1)], [slice(0, 2, 1), slice(2, 4)] and
\* [slice(0, 2), slice(0, 4, 2)].
NotSlice == Item(FALSE, NoIndex, NoIndex, NoStep)

MetaSpecs ==
  { SliceSpec(FALSE, <<>>),
    SliceSpec(TRUE, <<>>),
    SliceSpec(TRUE, <<NotSlice, NotSlice>>),
    SliceSpec(TRUE, <<Item(TRUE, NoIndex, 10, NoStep)>>),
    SliceSpec(TRUE, <<Item(TRUE, 3, NoIndex, NoStep)>>),
    SliceSpec(TRUE, <<Item(TRUE, 0, 10, 2)>>),
    SliceSpec(TRUE, <<Item(TRUE, 0, 10, 1)>>),
    SliceSpec(TRUE, <<Item(TRUE, 0, 2, NoStep)>>),
    SliceSpec(TRUE, <<Item(TRUE, 2, 2, 1)>>),
    SliceSpec(TRUE, <<Item(TRUE, 0, 2, 1), Item(TRUE, 2, 4, NoStep)>>),
    SliceSpec(TRUE, <<Item(TRUE, 0, 2, NoStep), Item(TRUE, 0, 4, 2)>>) }

\* The chunk passed, if any: its shape and dtype are all chunk_metadata
\* looks at.
MetaChunks ==
  { <<>> } \cup
  { <<Array(shape, dtype, FALSE, <<>>)>> :
      shape \in {<<>>, <<0>>, <<2>>, <<5>>, <<10>>, <<11>>, <<2, 2>>},
      dtype \in {"u1", "O"} }

MetaDtypes == {<<>>, <<"u1">>, <<"u2">>, <<"O">>}

MetaInputs ==
  [fn : {"chunk_metadata"}, array_name : {<<"x">>}, spec : MetaSpecs,
   chunks : MetaChunks, dtypes : MetaDtypes]

InitMeta ==
  /\ InitWith({Args(Url("http", "s3"), <<>>, FALSE, FALSE, 0)})
  /\ arg \in MetaInputs
  /\ ret = NoRet

CallChunkMetadata ==
  /\ arg.fn = "chunk_metadata" /\ ~ret.done
  /\ LET md == chunk_metadata_of(arg.array_name, arg.spec, arg.chunks, arg.dtypes)
     IN ret' = [done |-> TRUE, err |-> md.err, chunk_name |-> md.chunk_name,
                shape |-> md.shape]
  /\ UNCHANGED <<arg, cfgvars, srvvars, poolvars, thvars, completed, nops, nfaults, raised>>

NextMeta == CallChunkMetadata

SpecMeta == InitMeta /\ [][NextMeta]_vars

\* generate_chunks called on its own: small shapes with every chunk size
\* from one byte to the whole array and beyond, and the calls of
\* test_generate_chunks without power_of_two.
SmallShapes == {<<1>>, <<3>>, <<7>>, <<2, 3>>, <<7, 2>>, <<4, 4>>, <<3, 1, 2>>}
ItemSizes == {1, 2}
SmallSizes == 1..8 \cup {14, 16, 32}
DimsToSplit == {<<>>, <<0>>, <<1>>, <<0, 1>>, <<1, 0>>, <<0, 1, 2>>, <<0, 10>>}
TestShape == <<10, 8192, 144>>
TestItemSize == 8

ChunkInput(shape, itemsize, max_chunk_size, dims_to_split) ==
  [fn |-> "generate_chunks", shape |-> shape, itemsize |-> itemsize,
   max_chunk_size |-> max_chunk_size, dims_to_split |-> dims_to_split]

ChunkInputs ==
  { ChunkInput(shape, itemsize, size, dims) :
      shape \in SmallShapes, itemsize \in ItemSizes, size \in SmallSizes,
      dims \in DimsToSplit }
  \cup
  { ChunkInput(TestShape, TestItemSize, 3000000, <<0, 1, 2>>),
    ChunkInput(TestShape, TestItemSize, 3000000, <<0, 10>>),
    ChunkInput(TestShape, TestItemSize, 1000000, <<0, 1, 2>>),
    ChunkInput(TestShape, TestItemSize, 1000000, <<>>),
    ChunkInput(TestShape, TestItemSize, Product(TestShape) * TestItemSize, <<0, 1, 2>>),
    ChunkInput(TestShape, TestItemSize, Product(TestShape) * TestItemSize - 1,
               <<0, 1, 2>>) }

InitChunks ==
  /\ InitWith({Args(Url("http", "s3"), <<>>, FALSE, FALSE, 0)})
  /\ arg \in ChunkInputs
  /\ ret = NoRet

CallGenerateChunks ==
  /\ arg.fn = "generate_chunks" /\ ~ret.done
  /\ ret' = [done |-> TRUE,
             chunks |-> generate_chunks(arg.shape, arg.itemsize, arg.max_chunk_size,
                                        arg.dims_to_split)]
  /\ UNCHANGED <<arg, cfgvars, srvvars, poolvars, thvars, completed, nops, nfaults, raised>>

NextChunks == CallGenerateChunks

SpecChunks == InitChunks /\ [][NextChunks]_vars

\* ------------------------------------------------------------------ typing
TypeOK ==
  /\ constructed \in {"no", "yes", "failed"}
  /\ \A t \in Threads : pc[t] \in {"idle", "get", "send", "put", "done"}
  /\ \A t \in Threads : Len(session[t]) <= 1
  /\ nops \in 0..MaxOps

\* ------------------------------------------------------------------ claims
\* The object a call of get_chunk, put_chunk or has_chunk names:
\* "<bucket>/<path>/<idx>.npy".
ObjectOf(c) == c.chunk_name \o NPY_EXT

Done(t, op) == pc[t] = "done" /\ call[t].op = op

SameArray(a, b) == a.shape = b.shape /\ a.dtype = b.dtype /\ a.elems = b.elems

PoolIds == {pool[k].id : k \in 1..Len(pool)}

\* C1: get_chunk(array_name, slices, chunk.dtype) issued after
\* put_chunk(array_name, slices, chunk) has completed returns an array
\* equal to chunk (with a server and network that do not fail the request).
C1_RoundTrip ==
  \A t \in Threads :
    ( /\ Done(t, "get_chunk") /\ ~faulty[t]
      /\ served[t].present
      /\ served[t].chunk.dtype = call[t].dtype
      /\ served[t].chunk.shape = call[t].shape )
    => /\ result[t].err = ""
       /\ SameArray(result[t].chunk, served[t].chunk)

\* A 0-dimensional chunk came back from the store.
C1_Witness ==
  \E t \in Threads :
    /\ Done(t, "get_chunk") /\ ~faulty[t] /\ served[t].present
    /\ call[t].slices = Slices0
    /\ result[t].err = ""
    /\ result[t].chunk.elems = <<513>>

\* C2: a session is held by at most one in-flight operation at a time:
\* no two threads hold the same session, a session that is held is not in
\* the free list, and no session is in the free list twice.
C2_ExclusiveSession ==
  /\ \A t, u \in Threads :
       (t # u /\ session[t] # <<>> /\ session[u] # <<>>)
       => session[t][1].id # session[u][1].id
  /\ \A t \in Threads : session[t] # <<>> => session[t][1].id \notin PoolIds
  /\ Cardinality(PoolIds) = Len(pool)

\* Two threads hold sessions at once, one of them in an operation that has
\* checked out two different sessions, so that one came off the free list.
C2_Witness ==
  \E t, u \in Threads :
    /\ t # u /\ session[t] # <<>> /\ session[u] # <<>>
    /\ Cardinality(took[t]) = 2

\* C3: every operation that checks a session out of the pool releases it
\* back to the free list when it completes, on success and on failure: once
\* the operation is over, each session it took is free or taken by another.
C3_ReleasedOnEveryExit ==
  \A t \in Threads :
    pc[t] = "done" =>
      \A id \in took[t] :
        \/ id \in PoolIds
        \/ \E u \in Threads : u # t /\ session[u] # <<>> /\ session[u][1].id = id

\* C4: get_chunk for a chunk whose object was never written raises
\* ChunkNotFound (with a server and network that do not fail the request).
C4_MissingChunk ==
  \A t \in Threads :
    (Done(t, "get_chunk") /\ ~faulty[t] /\ ObjectOf(call[t]) \notin DOMAIN objects)
    => result[t].err = "ChunkNotFound"

C4_Witness ==
  \E t \in Threads :
    /\ Done(t, "get_chunk") /\ ~faulty[t] /\ sent[t] = 1
    /\ ObjectOf(call[t]) \notin DOMAIN objects
    /\ call[t].array_name = ArrayX
    /\ result[t].err = "ChunkNotFound"

\* C5: get_chunk raises BadChunk whenever the chunk stored under the key has
\* a shape or dtype other than the requested one, with fewer stored bytes
\* than expected and with more.
C5_BadChunk ==
  \A t \in Threads :
    ( /\ Done(t, "get_chunk") /\ ~faulty[t]
      /\ served[t].present
      /\ \/ served[t].chunk.dtype # call[t].dtype
         \/ served[t].chunk.shape # call[t].shape )
    => result[t].err = "BadChunk"

\* The stored chunk holds fewer bytes than the requested dtype and shape need.
C5_Witness ==
  \E t \in Threads :
    /\ Done(t, "get_chunk") /\ ~faulty[t] /\ served[t].present
    /\ Len(response[t].content.body)
         < Product(call[t].shape) * ItemSize(call[t].dtype)
    /\ result[t].err = "BadChunk"

\* The stored chunk holds more bytes than the requested dtype and shape need.
C5_WitnessTooLarge ==
  \E t \in Threads :
    /\ Done(t, "get_chunk") /\ ~faulty[t] /\ served[t].present
    /\ Len(response[t].content.body)
         > Product(call[t].shape) * ItemSize(call[t].dtype)
    /\ result[t].err = "BadChunk"

\* C6: has_chunk returns False without raising when the chunk's object does
\* not exist, and True once put_chunk for the same array and slices has
\* completed (with a server and network that do not fail the request).
C6_HasChunk ==
  \A t \in Threads :
    (Done(t, "has_chunk") /\ ~faulty[t])
    => /\ result[t].err = ""
       /\ ObjectOf(call[t]) \notin DOMAIN objects => result[t].flag = FALSE
       /\ ObjectOf(call[t]) \in DOMAIN written => result[t].flag = TRUE

C6_Witness ==
  \E t \in Threads :
    /\ Done(t, "has_chunk") /\ ~faulty[t]
    /\ ObjectOf(call[t]) \notin DOMAIN objects
    /\ result[t].err = "" /\ result[t].flag = FALSE

C6_WitnessPresent ==
  \E t \in Threads :
    /\ Done(t, "has_chunk") /\ ~faulty[t]
    /\ ObjectOf(call[t]) \in DOMAIN written
    /\ result[t].flag = TRUE

\* The index strings of the chunks put_chunk has stored under an array.
WrittenIds(array_name) ==
  {written[p].idx : p \in {q \in DOMAIN written : written[q].array_name = array_name}}

\* C7: list_chunk_ids(array) returns exactly the index strings of the chunks
\* written under that array, none missing, extra or twice and none of
\* another array, for every page-size cap (with a server and network that
\* do not fail the request and no chunk stored while the listing runs).
C7_ListExact ==
  \A t \in Threads :
    (Done(t, "list_chunk_ids") /\ ~faulty[t] /\ ~dirty[t] /\ result[t].err = "")
    => /\ Range(result[t].ids) = WrittenIds(call[t].array_name)
       /\ Len(result[t].ids) = Cardinality(WrittenIds(call[t].array_name))

\* C8: create_array for an array whose bucket already exists (the server
\* answers 409) does not raise, and no step of create_array changes the
\* stored objects.
C8_CreateIdempotent ==
  /\ [](\A t \in Threads :
          /\ (Done(t, "create_array") /\ ~faulty[t]) => result[t].err = ""
          /\ ( /\ call[t].op = "create_array" /\ call[t].stage = 1
               /\ response[t].status_code = 409 /\ pc[t] = "done" )
             => result[t].err = "")
  /\ [][\A t \in Threads :
          (call[t].op = "create_array" /\ pc[t] \in {"get", "send", "put"})
          => objects' = objects]_vars

\* The second create_array for a bucket was answered 409 and returned.
C8_Witness ==
  \E t \in Threads :
    /\ Done(t, "create_array") /\ call[t].array_name = ArrayC
    /\ call[t].stage = 1 /\ response[t].status_code = 409
    /\ result[t].err = ""

\* Whether a bearer token with these prefixes covers a URL path.
Covered(prefixes, path) == \E prefix \in prefixes : StartsWith(LStrip(path, "/"), prefix)

\* C9: with bearer-token authentication a request whose path no prefix of
\* the token covers fails with AuthorisationFailed before any network call:
\* it does not reach the server, and only requests whose path is covered
\* carry the Authorization header.
C9_BearerPrefix ==
  /\ ( /\ auth.kind = "bearer" /\ ~Covered(auth.prefixes, <<"/">>)
       /\ constructed # "no" )
     => /\ constructed = "failed" /\ init_error = "AuthorisationFailed"
        /\ ~init_sent
  /\ \A t \in Threads :
       /\ request[t].Authorization = "Bearer"
          => Covered(auth.prefixes, request[t].path)
       /\ (auth.kind = "bearer" /\ response[t] # NoResponse)
          => /\ Covered(auth.prefixes, response[t].path)
             /\ response[t].Authorization = "Bearer"
       /\ ( /\ auth.kind = "bearer" /\ pc[t] \in {"put", "done"}
            /\ request[t] # NoRequest
            /\ ~Covered(auth.prefixes, request[t].path) )
          => /\ pc[t] = "done" /\ result[t].err = "AuthorisationFailed"
             /\ sent[t] = 0

\* The smoke test of the constructor was refused before it was sent.
C9_Witness ==
  /\ auth.kind = "bearer" /\ ~Covered(auth.prefixes, <<"/">>)
  /\ constructed = "failed" /\ init_error = "AuthorisationFailed"
  /\ ~init_sent

\* The number of non-empty segments of a URL path.
RECURSIVE Segments(_)
Segments(path) ==
  IF path = <<>> THEN 0
  ELSE (IF Head(path) # "/" /\ (Len(path) = 1 \/ path[2] = "/") THEN 1 ELSE 0)
         + Segments(Tail(path))

\* C10: a 403 or 404 response becomes ChunkNotFound exactly when the URL
\* path has more than one non-empty segment, and StoreUnavailable when it
\* has at most one (has_chunk and is_complete return False on ChunkNotFound).
C10_NotFoundOrUnavailable ==
  \A t \in Threads :
    (pc[t] = "done" /\ response[t].status_code \in {403, 404})
    => IF Segments(response[t].path) > 1
       THEN \/ result[t].err = "ChunkNotFound"
            \/ /\ call[t].op \in {"has_chunk", "is_complete"}
               /\ result[t].err = "" /\ result[t].flag = FALSE
       ELSE result[t].err = "StoreUnavailable"

\* A listing of a bucket that does not exist was answered 404.
C10_Witness ==
  \E t \in Threads :
    /\ Done(t, "list_chunk_ids") /\ response[t].status_code = 404
    /\ Segments(response[t].path) = 1
    /\ result[t].err = "StoreUnavailable"

\* A 403 for an object.
C10_WitnessObject ==
  \E t \in Threads :
    /\ pc[t] = "done" /\ response[t].status_code = 403
    /\ Segments(response[t].path) = 3
    /\ result[t].err = "ChunkNotFound"

\* C11: a 401 response becomes AuthorisationFailed for every operation and
\* every URL path, in the constructor as well; has_chunk and is_complete
\* raise it and do not return False.
C11_Unauthorised ==
  /\ init_status = 401
     => constructed = "failed" /\ init_error = "AuthorisationFailed"
  /\ \A t \in Threads :
       (pc[t] \in {"put", "done"} /\ response[t].status_code = 401)
       => pc[t] = "done" /\ result[t].err = "AuthorisationFailed"

\* is_complete was answered 401 for the sentinel object.
C11_Witness ==
  \E t \in Threads :
    /\ Done(t, "is_complete") /\ response[t].status_code = 401
    /\ Segments(response[t].path) = 3
    /\ result[t].err = "AuthorisationFailed"

\* has_chunk was answered 401.
C11_WitnessHasChunk ==
  \E t \in Threads :
    /\ Done(t, "has_chunk") /\ response[t].status_code = 401
    /\ result[t].err = "AuthorisationFailed"

\* A listing of a bucket was answered 401.
C11_WitnessBucket ==
  \E t \in Threads :
    /\ Done(t, "list_chunk_ids") /\ response[t].status_code = 401
    /\ Segments(response[t].path) = 1
    /\ result[t].err = "AuthorisationFailed"

\* C12: every response whose status is not 2xx and not 401, 403 or 404 is
\* raised as StoreUnavailable by the request scope and is not handed to the
\* caller as a successful response (the 409 create_array accepts for its
\* bucket is answered outside the request scope).
C12_OtherStatusUnavailable ==
  \A t \in Threads :
    ( /\ pc[t] \in {"put", "done"} /\ response[t] # NoResponse
      /\ response[t].status_code \notin 200..299
      /\ response[t].status_code \notin {401, 403, 404}
      /\ ~(BucketPut(call[t]) /\ response[t].status_code = 409) )
    => pc[t] = "done" /\ result[t].err = "StoreUnavailable"

\* The sentinel object of an array: "<array>/complete".
SentinelOf(array_name) == join(array_name, COMPLETE)

\* The object the GET of is_complete(array) names, as the server decodes it.
KeyRead(array_name) == LStrip(unquote(complete_url(array_name)), "/")

\* C13: is_complete(array) returns False without raising while the object
\* "<array>/complete" is absent and True once mark_complete(array) has
\* returned; mark_complete leaves a zero-length object at that key, which
\* is the key is_complete reads (with a server and network that do not fail
\* the request).
C13_Complete ==
  /\ \A t \in Threads :
       (Done(t, "is_complete") /\ ~faulty[t])
       => /\ result[t].err = ""
          /\ SentinelOf(call[t].array_name) \notin DOMAIN objects
             => result[t].flag = FALSE
          /\ call[t].array_name \in completed => result[t].flag = TRUE
  /\ \A a \in completed :
       /\ KeyRead(a) \in DOMAIN objects
       /\ objects[KeyRead(a)].body = <<>>

\* The error kinds of the store.
StoreErrors == {"StoreUnavailable", "ChunkNotFound", "BadChunk", "AuthorisationFailed"}

\* C14: no foreign error type escapes: whatever the constructor or an
\* operation raises is StoreUnavailable, ChunkNotFound, BadChunk or
\* AuthorisationFailed.
C14_NoForeignError ==
  /\ init_error \in StoreErrors \cup {""}
  /\ \A t \in Threads : pc[t] = "done" => result[t].err \in StoreErrors \cup {""}

\* Whether read_array can make no array of a payload.
Malformed(payload) ==
  \/ ~payload.npy
  \/ payload.version \notin {<<1, 0>>, <<2, 0>>}
  \/ HasObject(payload.descr)
  \/ Len(payload.body) < Product(payload.shape) * ItemSize(payload.descr)

\* C15: when the payload answered to get_chunk is malformed (unsupported
\* format version, object dtype, or fewer bytes than the header's shape
\* and dtype need), get_chunk raises BadChunk and returns no array.
C15_MalformedPayload ==
  \A t \in Threads :
    ( /\ Done(t, "get_chunk") /\ response[t].status_code = 200
      /\ Malformed(response[t].content) )
    => result[t].err = "BadChunk"

\* The sessions that exist: those threads hold and those in the free list.
Sessions ==
  {session[t][1] : t \in {u \in Threads : session[u] # <<>>}} \cup Range(pool)

\* C16: at most one authentication variant is configured per store: a
\* token together with credentials fails construction with
\* AuthorisationFailed before anything is sent; neither gives anonymous
\* access, with no handler and no Authorization header on any request; a
\* token alone gives the bearer handler and credentials alone the signing
\* handler; every session the factory makes carries the store's handler,
\* which never changes once the store is constructed.
C16_OneAuthVariant ==
  /\ [](/\ (args.token # <<>> /\ args.credentials /\ constructed # "no")
           => /\ constructed = "failed" /\ init_error = "AuthorisationFailed"
              /\ ~init_sent
        /\ (args.token = <<>> /\ ~args.credentials)
           => /\ auth = NoAuth
              /\ \A t \in Threads :
                   request[t].Authorization = "" /\ response[t].Authorization = ""
        /\ constructed = "yes"
           => auth.kind = (IF args.token # <<>> THEN "bearer"
                           ELSE IF args.credentials THEN "aws" ELSE "none")
        /\ \A s \in Sessions : s.auth = auth)
  /\ [][constructed # "no" => auth' = auth]_vars

\* Construction with a token and credentials has failed.
C16_Witness ==
  /\ args.token # <<>> /\ args.credentials
  /\ constructed = "failed" /\ init_error = "AuthorisationFailed" /\ ~init_sent

\* An anonymous store was answered, and a store with credentials has made
\* two sessions.
C16_WitnessAnonymous ==
  /\ args.token = <<>> /\ ~args.credentials
  /\ \E t \in Threads : response[t].status_code = 200 /\ response[t].Authorization = ""

C16_WitnessCredentials ==
  /\ args.credentials /\ auth.kind = "aws" /\ created = 2
  /\ \E t \in Threads : response[t].Authorization = "AWS"

\* Whether every item of a slice specification is a slice with explicit
\* start and stop and unit stride.
SimpleSlices(spec) ==
  /\ spec.iterable
  /\ \A k \in 1..Len(spec.items) :
       /\ spec.items[k].is_slice
       /\ spec.items[k].start # NoIndex /\ spec.items[k].stop # NoIndex
       /\ spec.items[k].step \in {1, NoStep}

ExtentOf(spec) ==
  [k \in 1..Len(spec.items) |-> spec.items[k].stop - spec.items[k].start]

\* C17: chunk_metadata raises BadChunk for every slice specification that
\* is not a sequence of slices with explicit start and stop and unit
\* stride, for every chunk whose shape is not the one the slices imply
\* (rank included) and for every chunk or dtype with object semantics;
\* otherwise it returns stop - start per dimension as the shape.
C17_MetadataValidation ==
  (arg.fn = "chunk_metadata" /\ ret.done) =>
    IF \/ ~SimpleSlices(arg.spec)
       \/ arg.chunks # <<>> /\ arg.chunks[1].shape # ExtentOf(arg.spec)
       \/ arg.chunks # <<>> /\ arg.chunks[1].dtype = "O"
       \/ arg.dtypes # <<>> /\ arg.dtypes[1] = "O"
    THEN ret.err = "BadChunk"
    ELSE ret.err = "" /\ ret.shape = ExtentOf(arg.spec)

\* A stride of 2 in the second dimension was refused.
C17_Witness ==
  /\ arg.fn = "chunk_metadata" /\ ret.done
  /\ Len(arg.spec.items) = 2 /\ arg.spec.items[2].step = 2
  /\ arg.chunks = <<>> /\ arg.dtypes = <<>>
  /\ ret.err = "BadChunk"

\* A rank mismatch was refused, and a fitting chunk accepted.
C17_WitnessRank ==
  /\ arg.fn = "chunk_metadata" /\ ret.done
  /\ arg.spec = SliceSpec(TRUE, <<>>) /\ arg.chunks # <<>>
  /\ arg.chunks[1].shape = <<5>> /\ arg.chunks[1].dtype = "u1"
  /\ ret.err = "BadChunk"

C17_WitnessAccepted ==
  /\ arg.fn = "chunk_metadata" /\ ret.done
  /\ Len(arg.spec.items) = 2 /\ arg.chunks # <<>>
  /\ ret.err = "" /\ ret.shape = <<2, 2>>

RECURSIVE Sum(_)
Sum(s) == IF s = <<>> THEN 0 ELSE Head(s) + Sum(Tail(s))

\* The byte size of the largest chunk of a partition.
LargestChunk(chunks, itemsize) ==
  itemsize * Product([d \in 1..Len(chunks) |->
                        CHOOSE b \in Range(chunks[d]) : \A c \in Range(chunks[d]) : c <= b])

\* The dimensions of the shape that may be split.
Splittable(shape, dims_to_split) ==
  {d \in 1..Len(shape) : \E k \in 1..Len(dims_to_split) : dims_to_split[k] + 1 = d}

C18_WitnessExceeds ==
  /\ arg.fn = "generate_chunks" /\ ret.done
  /\ LargestChunk(ret.chunks, arg.itemsize) > arg.max_chunk_size
  /\ Splittable(arg.shape, arg.dims_to_split) # {}

\* C19: without power_of_two the block lengths of every dimension are
\* positive, add up to the dimension's extent and differ by at most one,
\* the longer blocks first; a dimension that may not be split is one block
\* of its full extent.
C19_EvenBlocks ==
  (arg.fn = "generate_chunks" /\ ret.done) =>
    /\ Len(ret.chunks) = Len(arg.shape)
    /\ \A d \in 1..Len(arg.shape) :
         LET blocks == ret.chunks[d]
         IN /\ \A k \in 1..Len(blocks) : blocks[k] > 0
            /\ Sum(blocks) = arg.shape[d]
            /\ \A j, k \in 1..Len(blocks) :
                 /\ blocks[j] - blocks[k] <= 1
                 /\ j < k => blocks[j] >= blocks[k]
            /\ d \notin Splittable(arg.shape, arg.dims_to_split)
               => blocks = <<arg.shape[d]>>

\* An extent of 8192 in 10 blocks: 820, 820, then eight of 819.
C19_Witness ==
  /\ arg.fn = "generate_chunks" /\ ret.done
  /\ arg.shape = TestShape /\ arg.max_chunk_size = 1000000
  /\ ret.chunks[1] = [k \in 1..10 |-> 1]
  /\ ret.chunks[2] = <<820, 820, 819, 819, 819, 819, 819, 819, 819, 819>>
  /\ ret.chunks[3] = <<144>>

\* The key of the object that holds a chunk.
ChunkKey(array_name, slices) == join(array_name, chunk_id_str(slices)) \o NPY_EXT

\* The values the concurrent callers put into the chunk under a key.
ValuesPut(key) ==
  {input.chunk : input \in {i \in SharedPuts : ChunkKey(i.array_name, i.slices) = key}}

\* A put_chunk or get_chunk that returned, every request served.
Returned(t, op) == Done(t, op) /\ ~faulty[t] /\ result[t].err = ""

\* C20: under any interleaving of put_chunk calls, once a put_chunk has
\* returned the object of its chunk holds, whole, one of the values put
\* into that chunk (the one stored last), whatever was put into other
\* chunks meanwhile; and a get_chunk that returns, returns the whole
\* of one of the values put into its chunk, never a mixture.
C20_ConcurrentPuts ==
  /\ \A t \in Threads :
       Returned(t, "put_chunk") =>
         LET key == ChunkKey(call[t].array_name, call[t].slices)
         IN /\ key \in DOMAIN objects
            /\ key \in DOMAIN written
            /\ \E value \in ValuesPut(key) :
                 /\ read_array(objects[key]).err = ""
                 /\ SameArray(read_array(objects[key]).chunk, value)
                 /\ SameArray(written[key].chunk, value)
            /\ Cardinality(ValuesPut(key)) = 1
               => SameArray(read_array(objects[key]).chunk, call[t].chunk)
  /\ \A t \in Threads :
       Returned(t, "get_chunk") =>
         \E value \in ValuesPut(ChunkKey(call[t].array_name, call[t].slices)) :
           SameArray(result[t].chunk, value)

\* Two threads have put different values into one chunk, one storing while
\* the other was under way, and the object holds the first one's value.
C20_Witness ==
  \E t, u \in Threads :
    /\ t # u /\ Returned(t, "put_chunk") /\ Returned(u, "put_chunk")
    /\ call[t].array_name = call[u].array_name /\ call[t].slices = call[u].slices
    /\ ~SameArray(call[t].chunk, call[u].chunk)
    /\ dirty[t]
    /\ SameArray(read_array(objects[ChunkKey(call[t].array_name, call[t].slices)]).chunk,
                 call[t].chunk)

\* Two threads have put into chunks of different arrays at once, and each
\* object holds its own value.
C20_WitnessDifferent ==
  \E t, u \in Threads :
    /\ t # u /\ Returned(t, "put_chunk") /\ Returned(u, "put_chunk")
    /\ call[t].array_name = ArrayX /\ call[u].array_name = ArrayXY
    /\ dirty[t]
    /\ ChunkKey(ArrayXY, call[u].slices) \in DOMAIN objects

\* A get_chunk returned a value while another thread's put_chunk of
\* another value into the same chunk had been under way.
C20_WitnessGet ==
  \E t, u \in Threads :
    /\ t # u /\ Returned(t, "get_chunk") /\ Returned(u, "put_chunk")
    /\ call[t].array_name = call[u].array_name /\ call[t].slices = call[u].slices
    /\ dirty[u]
    /\ ~SameArray(result[t].chunk, call[u].chunk)

\* The page of a listing a thread has received is marked truncated.
Truncated(t) ==
  LET truncated == FindTag(response[t].root, "IsTruncated")
  IN truncated # <<>> /\ truncated[1].text = TEXT_TRUE

\* A thread leaves the with block of a listing request.
PageRead(t) ==
  pc[t] = "put" /\ call[t].op = "list_chunk_ids" /\ pc'[t] # "put"

\* C21: when a page of a listing is marked truncated but holds no key, on
\* the first page or a later one, list_chunk_ids makes no further request
\* and returns the ids of the keys it has collected, without an error.
C21_StopsOnEmptyTruncatedPage ==
  [][\A t \in Threads :
       ( /\ PageRead(t) /\ Truncated(t)
         /\ IterTag(response[t].root, "Key") = <<>> )
       => /\ pc'[t] = "done"
          /\ result'[t].err = ""
          /\ result'[t].ids = ChunkIds(keys[t], request[t].prefix)]_vars

\* C22: while a page is marked truncated, list_chunk_ids repeats the
\* request with a marker, the value of the page's NextMarker when it has
\* one, otherwise the last key seen; a page not marked truncated ends the
\* loop.
C22_MarkerOfNextRequest ==
  [][\A t \in Threads :
       PageRead(t) =>
         LET root == response[t].root
             next_marker == FindTag(root, "NextMarker")
             found == IterTag(root, "Key")
             seen == keys[t] \o [k \in 1..Len(found) |-> found[k].text]
         IN IF ~Truncated(t) THEN pc'[t] = "done"
            ELSE IF next_marker # <<>>
              THEN pc'[t] = "get" /\ request'[t].marker = next_marker[1].text
            ELSE seen # <<>>
              => pc'[t] = "get" /\ request'[t].marker = seen[Len(seen)]]_vars

\* A thread's request reaches the network.
RequestSent(t) == pc[t] = "send" /\ sent'[t] = sent[t] + 1

\* The number of requests a create_array makes when none fails.
CreateRequests == 1 + (IF public_read THEN 1 ELSE 0) + (IF expiry_days > 0 THEN 1 ELSE 0)

\* C23: create_array makes its requests in a fixed order: the PUT of the
\* bucket first, then the PUT of the bucket policy if and only if
\* public_read is set, then the PUT of the lifecycle if and only if
\* expiry_days > 0; when the PUT of the bucket is answered with an error
\* status (400 to 599) other than 409, create_array raises and sends
\* nothing more.
C23_CreateOrder ==
  /\ [][\A t \in Threads :
          (call[t].op = "create_array" /\ RequestSent(t)) =>
            LET req == request'[t]
            IN /\ req.method = "PUT"
               /\ req.path = bucket_url(split(call[t].array_name, -1)[1])
               /\ sent[t] = 0 <=> req.query = ""
               /\ req.query = "policy" => public_read /\ sent[t] = 1
               /\ req.query = "lifecycle"
                  => expiry_days > 0 /\ sent[t] = CreateRequests - 1
               /\ req.query \in {"", "policy", "lifecycle"}]_vars
  /\ [](\A t \in Threads :
          /\ (Done(t, "create_array") /\ result[t].err = "")
             => sent[t] = CreateRequests
          /\ ( /\ Done(t, "create_array") /\ request[t].query = ""
               /\ response[t] # NoResponse
               /\ response[t].status_code \in 400..599
               /\ response[t].status_code # 409 )
             => result[t].err # "" /\ sent[t] = 1)

\* A create_array with public_read and expiry_days has made its three
\* requests and returned.
C23_Witness ==
  \E t \in Threads :
    /\ Done(t, "create_array") /\ result[t].err = "" /\ ~faulty[t]
    /\ public_read /\ expiry_days > 0
    /\ sent[t] = 3 /\ request[t].query = "lifecycle"

\* A create_array with public_read alone has made two requests.
C23_WitnessPolicyOnly ==
  \E t \in Threads :
    /\ Done(t, "create_array") /\ result[t].err = "" /\ ~faulty[t]
    /\ public_read /\ expiry_days = 0
    /\ sent[t] = 2 /\ request[t].query = "policy"

\* A create_array with expiry_days alone has made two requests.
C23_WitnessExpiryOnly ==
  \E t \in Threads :
    /\ Done(t, "create_array") /\ result[t].err = "" /\ ~faulty[t]
    /\ ~public_read /\ expiry_days > 0
    /\ sent[t] = 2 /\ request[t].query = "lifecycle"

\* The PUT of the bucket was answered 500 on a store with public_read, and
\* create_array raised after that one request.
C23_WitnessBucketFails ==
  \E t \in Threads :
    /\ Done(t, "create_array") /\ public_read
    /\ request[t].query = "" /\ response[t].status_code = 500
    /\ result[t].err = "StoreUnavailable" /\ sent[t] = 1

\* The threads that hold a session, now and after the step.
Holders == {t \in Threads : session[t] # <<>>}
HoldersAfter == {t \in Threads : session'[t] # <<>>}

\* C24: the pool makes a new session only when its free list is empty;
\* as long as no operation has raised inside a request, the sessions made
\* when one is made are as many as the operations that then hold one (so
\* never more than were in flight at once), and every session made is
\* either in the free list exactly once or held by exactly one operation.
C24_CreateOnlyWhenEmpty ==
  /\ [][created' # created =>
          /\ pool = <<>> /\ created' = created + 1
          /\ ~raised => created' = Cardinality(HoldersAfter)]_vars
  /\ [](~raised =>
          \A id \in 1..created :
            LET free == {k \in 1..Len(pool) : pool[k].id = id}
                held == {t \in Holders : session[t][1].id = id}
            IN \/ Cardinality(free) = 1 /\ held = {}
               \/ free = {} /\ Cardinality(held) = 1)

\* Two sessions have been made, by two operations in flight at once, and a
\* third operation holds one of them again while the other is free.
C24_Witness ==
  /\ ~raised /\ created = 2 /\ nops = 3
  /\ Len(pool) = 1 /\ Cardinality(Holders) = 1

\* What list_chunk_ids returns for an array on a store that holds the given
\* buckets and objects, every request served.
ListResult(bkts, objs, array_name) ==
  LET bucket == split(array_name, 1)[1]
      prefix == split(array_name, 1)[2]
      all_keys == SortKeys({k \in BucketKeys(objs, bucket) : StartsWith(k, prefix)})
  IN IF bucket \notin bkts THEN [err |-> "StoreUnavailable", ids |-> <<>>]
     ELSE [err |-> "", ids |-> ChunkIds(all_keys, prefix)]

\* A listing that has returned with every request served and nothing
\* stored meanwhile returns what ListResult says.
ListingAsListed ==
  \A t \in Threads :
    (Done(t, "list_chunk_ids") /\ ~faulty[t] /\ ~dirty[t])
    => /\ result[t].err = ListResult(buckets, objects, call[t].array_name).err
       /\ result[t].ids = ListResult(buckets, objects, call[t].array_name).ids

\* C25 as stated: no request of mark_complete(array) changes what
\* list_chunk_ids(array) returns.
C25_ListingUnchanged ==
  /\ [][\A t \in Threads :
          (call[t].op = "mark_complete" /\ pc[t] = "send")
          => ListResult(buckets', objects', call[t].array_name)
               = ListResult(buckets, objects, call[t].array_name)]_vars
  /\ []ListingAsListed

\* C25, amended: when the bucket of the array exists, no request of
\* mark_complete(array) changes what list_chunk_ids(array) returns: the
\* sentinel, like every key that does not end in '.npy', is not returned
\* as a chunk id.
C25_ListingUnchangedInBucket ==
  /\ [][\A t \in Threads :
          ( /\ call[t].op = "mark_complete" /\ pc[t] = "send"
            /\ split(call[t].array_name, 1)[1] \in buckets )
          => ListResult(buckets', objects', call[t].array_name)
               = ListResult(buckets, objects, call[t].array_name)]_vars
  /\ []ListingAsListed

\* A chunk was put, the array marked complete, and the listing returned
\* the one chunk id with the sentinel in the store.
C25_Witness ==
  \E t \in Threads :
    /\ Done(t, "list_chunk_ids") /\ ~faulty[t] /\ result[t].err = ""
    /\ SentinelOf(call[t].array_name) \in DOMAIN objects
    /\ Len(result[t].ids) = 1

\* Whether the smoke test's request carries an Authorization header.
SmokeTestAuthorized ==
  PrepareAuth(auth, [NoRequest EXCEPT !.method = "GET", !.path = <<"/">>])
    .request.Authorization # ""

\* C26: of the answers to the constructor's GET of the base URL, a 403 is
\* let pass only when the request carried no Authorization header; a 403
\* to a request that carried one fails the construction with
\* StoreUnavailable, a 401 with AuthorisationFailed and every other error
\* status (400 to 599) with StoreUnavailable; a store that was constructed
\* got no other error status; after a failed construction there is no
\* session pool and no call is made.
C26_SmokeTest ==
  /\ (constructed # "no" /\ init_status \in 400..599) =>
       IF init_status = 403 /\ ~SmokeTestAuthorized
       THEN constructed = "yes" /\ init_error = ""
       ELSE /\ constructed = "failed"
            /\ init_error = (IF init_status = 401 THEN "AuthorisationFailed"
                             ELSE "StoreUnavailable")
  /\ constructed = "failed" =>
       /\ init_error \in StoreErrors
       /\ pool = <<>> /\ created = 0 /\ nops = 0
       /\ \A t \in Threads : pc[t] = "idle" /\ session[t] = <<>>

\* An anonymous store was constructed on a 403.
C26_Witness ==
  /\ constructed = "yes" /\ init_status = 403 /\ ~SmokeTestAuthorized

\* A store with credentials failed on a 403.
C26_WitnessAuthorized ==
  /\ constructed = "failed" /\ init_status = 403 /\ SmokeTestAuthorized
  /\ init_error = "StoreUnavailable"

\* A store failed on a 500 and on a 401.
C26_WitnessUnavailable ==
  constructed = "failed" /\ init_status = 500 /\ init_error = "StoreUnavailable"

C26_WitnessUnauthorised ==
  constructed = "failed" /\ init_status = 401 /\ init_error = "AuthorisationFailed"

====
